---- MODULE Spec2Model ----
(***************************************************************************)
(* undervolt.c: Vid / divisor editor for the P-state registers of AMD      *)
(* Family 14h processors.                                                  *)
(*                                                                         *)
(* A uint64_t is the set of the positions of its 1 bits (a subset of       *)
(* 0..63), so that the C bit operators are set operators and no 64-bit     *)
(* number is ever built.  A float divisor is an integer count of eighths   *)
(* (8 = 1.0, 20 = 2.5), which is exact for every value used here and keeps *)
(* the truncation of divtomsr visible.  A register address 0xC001xxxx is   *)
(* the pair of its 16-bit halves.                                          *)
(***************************************************************************)
EXTENDS Integers, Sequences, FiniteSets, TLC

(* ----------------------------- bounds ---------------------------------- *)
\* Largest "cpu cores" value of the /proc/cpuinfo files that are enumerated.
MaxCpu == 2
\* Inputs of the codec specification: Vid integers 0..MaxVid and divisors
\* 0..MaxDiv8 (in eighths; 8*33 = 264 is the first divisor whose DidMSD
\* needs a sixth bit).
MaxVid == 130
MaxDiv8 == 290

(* ------------------------ 64-bit words as bit sets --------------------- *)
Bits64 == 0..63

BitAnd(a, b) == a \cap b
BitOr(a, b) == a \cup b
BitNot(a) == Bits64 \ a
Shl(a, n) == {k + n : k \in a} \cap Bits64
Shr(a, n) == {k - n : k \in {b \in a : b >= n}}

\* A non-negative int below 2^31 as the set of its 1 bits.
NatBits(n) == {k \in 0..30 : (n \div (2 ^ k)) % 2 = 1}

\* Conversion of a (32-bit signed) int to uint64_t: sign extension.
U64FromInt(n) == IF n >= 0 THEN NatBits(n) ELSE BitNot(NatBits((-n) - 1))

\* Conversion of an unsigned (32-bit) value, held as a bit set, to uint64_t.
U64FromUnsigned(u) == u \cap (0..31)

\* The number a word below 2^31 stands for.
RECURSIVE ToNat(_)
ToNat(w) ==
    IF w = {} THEN 0
    ELSE LET k == CHOOSE b \in w : TRUE IN (2 ^ k) + ToNat(w \ {k})

(* ------------------------------ the codec ------------------------------ *)
\* msrtodiv (checkdid only prints): the divisor, in eighths, of a word.
msrtodiv(v) ==
    LET didmsd == ToNat(BitAnd(Shr(v, 4), NatBits(31)))
        didlsd == ToNat(BitAnd(v, NatBits(15)))
    IN  (8 * didmsd) + (2 * didlsd) + 8

\* Mutant: DidMSD taken from div without the - 1.
divtomsr_NoMinusOne(div, msr) ==
    LET didmsd == div \div 8
        frac   == div % 8
        didlsd == (frac * 4) \div 8
        low    == BitOr(U64FromUnsigned(Shl(NatBits(didmsd), 4)), NatBits(didlsd))
    IN  BitOr(BitAnd(msr, BitNot(NatBits(511))), low)

\* divtomsr for div >= 0 (in eighths): the word *msr is left with.
\*   didmsd = div - 1      float to unsigned, truncated toward zero
\*   div -= (int)div       the fractional part
\*   didlsd = div * 4      truncated
\*   (didmsd << 4) | didlsd is unsigned (32 bits) before it meets the word.
divtomsr(div, msr) ==
    LET didmsd == IF div >= 8 THEN (div - 8) \div 8 ELSE 0
        frac   == div % 8
        didlsd == (frac * 4) \div 8
        low    == BitOr(U64FromUnsigned(Shl(NatBits(didmsd), 4)), NatBits(didlsd))
    IN  BitOr(BitAnd(msr, BitNot(NatBits(511))), low)

\* Mutant: the mask as an unsigned 32-bit value, zero-extended by the &.
VidClearMask_Unsigned == (0..31) \ (9..15)

\* ~(0x7F << 9): computed as an int, then converted to uint64_t by the &.
VidClearMask == U64FromInt((-(127 * (2 ^ 9))) - 1)

\* vid = (oMSR[i] >> 9) & 0x7F
VidOfWord(o) == ToNat(BitAnd(Shr(o, 9), NatBits(127)))

\* val = (oMSR[i] & (~(0x7F << 9))) | (vidToSet[i] << 9)
EditVid(o, vts) == BitOr(BitAnd(o, VidClearMask), Shl(vts, 9))

\* The word the edit loop hands to wrmsr: EditVid, then divtomsr when a
\* divisor is pending.
EditWord(o, vts, dts) ==
    IF dts # 0 THEN divtomsr(dts, EditVid(o, vts)) ELSE EditVid(o, vts)

(* ----------------------------- constants ------------------------------- *)
\* vidToSet[8], divToSet[8], oMSR[8], aMSR[8]
NPstates == 8
PIdx == 0..(NPstates - 1)

\* aMSR[i] = 0xC0010064 + i; the status register 0xC0010061; the current
\* P-state register 0xC0010071.  <<high half, low half>>.
aMSR(i) == <<49153, 100 + i>>
StatusMSR == <<49153, 97>>
CurrentMSR == <<49153, 113>>
MsrAddrs == {aMSR(i) : i \in PIdx} \cup {StatusMSR, CurrentMSR}

(* ----------------------------- environment ----------------------------- *)
\* The logical cpus that have a /dev/cpu/<n>/msr device.
Cpus == 0..(MaxCpu - 1)

\* Contents of the P-state registers before the run: three words that differ
\* in every field and in the opaque bits, laid out so that neighbouring
\* cores and neighbouring indices hold different words.
RegWords ==
    << {63, 40, 32, 31, 16, 12, 9, 5, 0},
       {62, 33, 17, 15, 14, 13, 11, 10, 8, 4, 1},
       {48, 31, 16, 15, 9, 7, 6, 2} >>
RegWord(cpu, i) == RegWords[((cpu + i) % 3) + 1]

\* Values of the status register: bits [2:0] and [6:4] give the range, bits 3
\* and 7 are set to show that they are masked off.  0x98: 0..1, 0xAA: 2..2.
StatusWords == {NatBits(152), NatBits(170)}

\* optarg of -p, as sscanf("%1d:%i,%f") sees it: how many of the three
\* fields convert, and their values (div in eighths; 0 where not given).
OptArg(k, id, vid, div) == [fields |-> k, id |-> id, vid |-> vid, div |-> div]
OptArgs ==
    { OptArg(2, 0, 32, 0),      \* 0:0x20
      OptArg(3, 0, 37, 20),     \* 0:0x25,2.5
      OptArg(3, 1, 0, 24),      \* 1:0,3
      OptArg(2, 1, 128, 0),     \* 1:0x80
      OptArg(3, 2, 40, 264),    \* 2:0x28,33
      OptArg(2, 2, 0, 0),       \* 2:0
      OptArg(2, 9, 32, 0),      \* 9:0x20
      OptArg(1, 1, 0, 0) }      \* 1

\* n = sscanf(optarg, "%1d:%i,%f", &pstateId, &vid, &div), with div = 0.0
\* set before the call.
Sscanf(a) ==
    [ n        |-> a.fields,
      pstateId |-> a.id,
      vid      |-> a.vid,
      div      |-> IF a.fields = 3 THEN a.div ELSE 0 ]

\* /proc/cpuinfo: the lines cpuIdCheck looks at, in the kernel's order.
\* A "cpu cores" value of -1 stands for a file without that line.
CpuinfoFile(vendor, family, model, cores) ==
    << [key |-> "vendor_id", val |-> vendor],
       [key |-> "cpu family", val |-> family],
       [key |-> "model", val |-> model] >>
    \o (IF cores = -1 THEN << >> ELSE << [key |-> "cpu cores", val |-> cores] >>)
    \o << [key |-> "flags", val |-> 0] >>

CpuinfoFiles ==
    { CpuinfoFile(v, f, m, c) :
        v \in {"AuthenticAMD", "GenuineIntel"}, f \in {20, 6},
        m \in {1, 2, 3}, c \in (-1)..MaxCpu }

(* ------------------------------ cpuIdCheck ----------------------------- *)
\* The getline loop from line k on.  [ret, ncpu, exited]: the value
\* returned, the global ncpu, and whether exit(1) was called instead.
RECURSIVE ScanCpuinfo(_, _, _, _, _)
ScanCpuinfo(lines, k, vendorChecked, familyChecked, n) ==
    IF k > Len(lines) THEN [ret |-> 0, ncpu |-> n, exited |-> FALSE]
    ELSE
      LET line == lines[k] IN
      IF line.key = "vendor_id" /\ line.val # "AuthenticAMD"
        THEN [ret |-> 1, ncpu |-> n, exited |-> FALSE]
      ELSE IF line.key = "cpu family" /\ line.val # 20
        THEN [ret |-> 1, ncpu |-> n, exited |-> FALSE]
      ELSE IF line.key = "model" /\ line.val \notin {1, 2}
        THEN [ret |-> 1, ncpu |-> n, exited |-> FALSE]
      ELSE IF line.key = "cpu cores" /\ line.val = 0
        THEN [ret |-> 0, ncpu |-> 0, exited |-> TRUE]
      ELSE
        LET vc == vendorChecked \/ line.key = "vendor_id"
            fc == familyChecked \/ line.key = "cpu family"
            nn == IF line.key = "cpu cores" THEN line.val ELSE n
        IN  IF vc /\ fc /\ nn # 0
              THEN [ret |-> 0, ncpu |-> nn, exited |-> FALSE]
              ELSE ScanCpuinfo(lines, k + 1, vc, fc, nn)

\* cpuIdCheck on a file; fopen failing is exit(1).
cpuIdCheck(file, opened) ==
    IF ~opened THEN [ret |-> 0, ncpu |-> 0, exited |-> TRUE]
    ELSE ScanCpuinfo(file, 1, FALSE, FALSE, 0)

(* ------------------------------- state --------------------------------- *)
VARIABLES
    pc,          \* where main is: getopt, cpuid, status, report, edit_read,
                 \* edit_write, current, exit (off: the program is not run)
    verbose, ncpu,                    \* the two globals
    read, current,                    \* the -r and -c flags
    vidToSet, divToSet, oMSR,         \* the arrays of main
    val, minPstate, maxPstate, i, j,  \* the locals of main
    exitStatus,                       \* the argument of exit()
    hw,          \* the registers: hw[cpu][address]
    openFds,     \* descriptors rdmsr / wrmsr opened and did not close
    log,         \* every rdmsr / wrmsr call made, in order
    diag,        \* the indices reported "P-state %d is not valid"
    idCheck,     \* what the cpuIdCheck() call returned (-1 before it)
    firstReq, firstNZ,  \* history: per index, the first -p naming it and the
                        \* first -p naming it with a non-zero Vid
    dupAny, dupNZ,      \* history: a -p named an index named before / named
                        \* before with a non-zero Vid
    ck, cw, cx, cout, cdec, cdone     \* the codec specification's state

mainVars == << pc, verbose, ncpu, read, current, vidToSet, divToSet, oMSR,
               val, minPstate, maxPstate, i, j, exitStatus, hw, openFds,
               log, diag, idCheck, firstReq, firstNZ, dupAny, dupNZ >>
codecVars == << ck, cw, cx, cout, cdec, cdone >>
vars == << mainVars, codecVars >>

NoReq == [set |-> FALSE, vid |-> 0, div |-> 0]

InitMain ==
    /\ pc = "getopt"
    /\ verbose = FALSE /\ ncpu = 0
    /\ read = FALSE /\ current = FALSE
    /\ vidToSet = [p \in PIdx |-> {}]
    /\ divToSet = [p \in PIdx |-> 0]
    /\ oMSR = [p \in PIdx |-> {}]
    /\ val = {} /\ minPstate = 0 /\ maxPstate = 0 /\ i = 0 /\ j = 0
    /\ exitStatus = -1
    /\ \E st \in StatusWords :
         hw = [c \in Cpus |-> [a \in MsrAddrs |->
                 IF a = StatusMSR THEN st
                 ELSE IF a = CurrentMSR THEN RegWord(c, 1)
                 ELSE RegWord(c, a[2] - 100)]]
    /\ openFds = 0
    /\ log = << >>
    /\ diag = {}
    /\ idCheck = -1
    /\ firstReq = [p \in PIdx |-> NoReq]
    /\ firstNZ = [p \in PIdx |-> NoReq]
    /\ dupAny = FALSE /\ dupNZ = FALSE

CodecOff ==
    ck = "none" /\ cw = {} /\ cx = 0 /\ cout = {} /\ cdec = 0 /\ cdone = FALSE

Init == InitMain /\ CodecOff

(* --------------------------- rdmsr and wrmsr --------------------------- *)
\* How a call goes: all four system calls succeed, or open, lseek, the
\* 8-byte read / write, or close fails.
AccessOutcomes == {"ok", "open", "seek", "short", "close"}

\* Descriptors a call leaves open: the returns after a failed lseek and
\* after a short read / write come before close(fd).
FdsLeft(out) == IF out \in {"seek", "short"} THEN 1 ELSE 0

\* rdmsr(cpu, msr, pVal): the value returned and what *pVal holds after it
\* (old: what it held before; read() has stored the register once it
\* returned 8 bytes).
rdmsr(cpu, msr, old, out) ==
    [ ret |-> IF out = "ok" THEN 0 ELSE 1,
      val |-> IF out \in {"ok", "close"} THEN hw[cpu][msr] ELSE old,
      fds |-> FdsLeft(out) ]

\* wrmsr(cpu, msr, val): the value returned and the registers after it.
\* The write lands in the copy of the register of that cpu; what it does to
\* the copies of the other cores is left to the later reads of those cores.
wrmsr(cpu, msr, v, out) ==
    [ ret |-> IF out = "ok" THEN 0 ELSE 1,
      hw  |-> IF out \in {"ok", "close"}
                THEN [hw EXCEPT ![cpu][msr] = v] ELSE hw,
      fds |-> FdsLeft(out) ]

LogEntry(op, cpu, msr, v, ret) ==
    [op |-> op, cpu |-> cpu, msr |-> msr, val |-> v, ret |-> ret]

(* -------------------------- main: the options -------------------------- *)
\* exit(s) from main
Exit(s) == pc' = "exit" /\ exitStatus' = s

parseFrame == << ncpu, oMSR, val, minPstate, maxPstate, i, j, hw, openFds,
                 log, diag, idCheck, codecVars >>
history == << firstReq, firstNZ, dupAny, dupNZ >>

\* case 'h': usage() calls exit(1); the exit(0) after it is never reached.
GetoptH ==
    /\ pc = "getopt"
    /\ Exit(1)
    /\ UNCHANGED << verbose, read, current, vidToSet, divToSet, history, parseFrame >>

GetoptV ==
    /\ pc = "getopt"
    /\ verbose' = TRUE
    /\ UNCHANGED << pc, exitStatus, read, current, vidToSet, divToSet, history, parseFrame >>

GetoptR ==
    /\ pc = "getopt"
    /\ read' = TRUE
    /\ UNCHANGED << pc, exitStatus, verbose, current, vidToSet, divToSet, history, parseFrame >>

GetoptC ==
    /\ pc = "getopt"
    /\ current' = TRUE
    /\ UNCHANGED << pc, exitStatus, verbose, read, vidToSet, divToSet, history, parseFrame >>

\* Mutant: the duplicate test left out.
IsDuplicate_Off(v) == FALSE

\* if(vidToSet[pstateId] != 0): "Duplicate -p"
IsDuplicate(v) == v # {}

\* case 'p'
GetoptP ==
    /\ pc = "getopt"
    /\ \E a \in OptArgs :
         LET s == Sscanf(a) IN
         IF s.n # 2 /\ s.n # 3 THEN
             /\ Exit(1)
             /\ UNCHANGED << vidToSet, divToSet, history >>
         ELSE IF s.pstateId < 0 \/ s.pstateId >= NPstates THEN
             /\ Exit(1)
             /\ UNCHANGED << vidToSet, divToSet, history >>
         ELSE
             LET p == s.pstateId
                 r == [set |-> TRUE, vid |-> s.vid, div |-> s.div]
             IN
             /\ dupAny' = (dupAny \/ firstReq[p].set)
             /\ dupNZ' = (dupNZ \/ firstNZ[p].set)
             /\ firstReq' = IF firstReq[p].set THEN firstReq
                            ELSE [firstReq EXCEPT ![p] = r]
             /\ firstNZ' = IF firstNZ[p].set \/ s.vid = 0 THEN firstNZ
                           ELSE [firstNZ EXCEPT ![p] = r]
             /\ IF IsDuplicate(vidToSet[p]) THEN
                    /\ Exit(1)
                    /\ UNCHANGED << vidToSet, divToSet >>
                ELSE
                    /\ vidToSet' = [vidToSet EXCEPT ![p] = U64FromInt(s.vid)]
                    /\ divToSet' = [divToSet EXCEPT ![p] = s.div]
                    /\ UNCHANGED << pc, exitStatus >>
    /\ UNCHANGED << verbose, read, current, parseFrame >>

\* default: an option getopt does not know; both branches end in usage(),
\* which calls exit(1).
GetoptUnknown ==
    /\ pc = "getopt"
    /\ Exit(1)
    /\ UNCHANGED << verbose, read, current, vidToSet, divToSet, history, parseFrame >>

\* getopt returns -1: the loop ends and cpuIdCheck is next.
GetoptEnd ==
    /\ pc = "getopt"
    /\ pc' = "cpuid"
    /\ UNCHANGED << exitStatus, verbose, read, current, vidToSet, divToSet,
                    history, parseFrame >>

(* ----------------------- main: after the options ----------------------- *)
optVars == << verbose, read, current, vidToSet, divToSet, history, codecVars >>

\* cpuIdCheck(); -- the value it returns is not looked at.
CpuIdCheck ==
    /\ pc = "cpuid"
    /\ \E file \in CpuinfoFiles, opened \in BOOLEAN :
         LET r == cpuIdCheck(file, opened) IN
         IF r.exited THEN
             /\ Exit(1)
             /\ UNCHANGED << ncpu, idCheck >>
         ELSE
             /\ ncpu' = r.ncpu
             /\ idCheck' = r.ret
             /\ pc' = "status"
             /\ UNCHANGED exitStatus
    /\ UNCHANGED << oMSR, val, minPstate, maxPstate, i, j, hw, openFds, log,
                    diag, optVars >>

\* Mutant: the test written for a negative error return.
Failed_Negative(ret) == ret < 0

\* if(rdmsr(...)) / if(wrmsr(...)): the call failed.
Failed(ret) == ret # 0

\* if(vidToSet[i] != 0) in the edit loop
Pending(v) == v # {}

\* Mutant: the range test without the test for a pending Vid.
NotValid_AnySlot(v, p, mn, mx) == p > mx \/ p < mn

\* if(vidToSet[i] != 0 && (i > maxPstate || i < minPstate)): not valid
NotValid(v, p, mn, mx) == v # {} /\ (p > mx \/ p < mn)

\* Mutant: the edit loop running over all eight slots.
LoopRange_AllSlots(mn, mx) == 0..7

\* The indices the edit loop visits: for(i = minPstate; i <= maxPstate; i++)
LoopRange(mn, mx) == mn..mx

Min(S) == CHOOSE x \in S : \A y \in S : x <= y

\* Where main is once the edit loop is over: the -c loop, which has a first
\* iteration when ncpu > 0, or exit(0).
AfterEdits(n, ii, jj) ==
    IF current /\ 0 < n
      THEN [pc |-> "current", i |-> 0, j |-> jj, exitStatus |-> exitStatus]
      ELSE [pc |-> "exit", i |-> ii, j |-> jj, exitStatus |-> 0]

\* Where main is when the edit loop's i reaches k: at the rdmsr of the
\* first index from k on that has a pending Vid (with j = 0, when the loop
\* over the cores has a first iteration), or past the loop.
EditFrom(k, mn, mx, n, jj) ==
    LET todo == {p \in LoopRange(mn, mx) : p >= k /\ Pending(vidToSet[p])} IN
    IF todo # {} /\ 0 < n
      THEN [pc |-> "edit_read", i |-> Min(todo), j |-> 0, exitStatus |-> exitStatus]
      ELSE AfterEdits(n, IF mx + 1 > k THEN mx + 1 ELSE k, jj)

\* Where main is when the -r loop's i reaches k.
ReportFrom(k, mn, mx, n, jj) ==
    IF read /\ k <= mx
      THEN [pc |-> "report", i |-> k, j |-> jj, exitStatus |-> exitStatus]
      ELSE EditFrom(mn, mn, mx, n, jj)

Goto(t) == pc' = t.pc /\ i' = t.i /\ j' = t.j /\ exitStatus' = t.exitStatus

\* rdmsr(0, 0xC0010061, &val), maxPstate and minPstate, and the loop that
\* reports the pending indices outside the range.
Status ==
    /\ pc = "status"
    /\ \E out \in AccessOutcomes :
         LET r  == rdmsr(0, StatusMSR, val, out)
             mx == ToNat(Shr(BitAnd(r.val, NatBits(112)), 4))
             mn == ToNat(BitAnd(r.val, NatBits(7)))
         IN
         /\ log' = Append(log, LogEntry("rd", 0, StatusMSR, r.val, r.ret))
         /\ openFds' = openFds + r.fds
         /\ val' = r.val
         /\ IF Failed(r.ret) THEN
                /\ Exit(1)
                /\ UNCHANGED << minPstate, maxPstate, diag, i, j >>
            ELSE
                /\ maxPstate' = mx
                /\ minPstate' = mn
                /\ diag' = {p \in PIdx : NotValid(vidToSet[p], p, mn, mx)}
                /\ Goto(ReportFrom(mn, mn, mx, ncpu, j))
    /\ UNCHANGED << ncpu, oMSR, hw, idCheck, optVars >>

\* One iteration of the -r loop: rdmsr(0, aMSR[i], &(oMSR[i])) and a line.
Report ==
    /\ pc = "report"
    /\ \E out \in AccessOutcomes :
         LET r == rdmsr(0, aMSR(i), oMSR[i], out) IN
         /\ log' = Append(log, LogEntry("rd", 0, aMSR(i), r.val, r.ret))
         /\ openFds' = openFds + r.fds
         /\ oMSR' = [oMSR EXCEPT ![i] = r.val]
         /\ IF Failed(r.ret) THEN Exit(1) /\ UNCHANGED << i, j >>
            ELSE Goto(ReportFrom(i + 1, minPstate, maxPstate, ncpu, j))
    /\ UNCHANGED << ncpu, val, minPstate, maxPstate, hw, diag, idCheck, optVars >>

\* Mutant: the register read on core 0 only, its value reused for the
\* other cores.
EditRead_Core0Only ==
    /\ pc = "edit_read"
    /\ IF j = 0 THEN
         \E out \in AccessOutcomes :
           LET r == rdmsr(j, aMSR(i), oMSR[i], out) IN
           /\ log' = Append(log, LogEntry("rd", j, aMSR(i), r.val, r.ret))
           /\ openFds' = openFds + r.fds
           /\ oMSR' = [oMSR EXCEPT ![i] = r.val]
           /\ IF r.ret # 0 THEN Exit(1) /\ UNCHANGED val
              ELSE /\ val' = EditWord(r.val, vidToSet[i], divToSet[i])
                   /\ pc' = "edit_write"
                   /\ UNCHANGED exitStatus
       ELSE
           /\ val' = EditWord(oMSR[i], vidToSet[i], divToSet[i])
           /\ pc' = "edit_write"
           /\ UNCHANGED << log, openFds, oMSR, exitStatus >>
    /\ UNCHANGED << ncpu, minPstate, maxPstate, i, j, hw, diag, idCheck, optVars >>

\* The edit loop up to its wrmsr: rdmsr(j, aMSR[i], &(oMSR[i])) and val.
EditRead ==
    /\ pc = "edit_read"
    /\ \E out \in AccessOutcomes :
         LET r == rdmsr(j, aMSR(i), oMSR[i], out) IN
         /\ log' = Append(log, LogEntry("rd", j, aMSR(i), r.val, r.ret))
         /\ openFds' = openFds + r.fds
         /\ oMSR' = [oMSR EXCEPT ![i] = r.val]
         /\ IF Failed(r.ret) THEN Exit(1) /\ UNCHANGED val
            ELSE /\ val' = EditWord(r.val, vidToSet[i], divToSet[i])
                 /\ pc' = "edit_write"
                 /\ UNCHANGED exitStatus
    /\ UNCHANGED << ncpu, minPstate, maxPstate, i, j, hw, diag, idCheck, optVars >>

\* wrmsr(j, aMSR[i], val) and the step to the next core or the next index.
EditWrite ==
    /\ pc = "edit_write"
    /\ \E out \in AccessOutcomes :
         LET r == wrmsr(j, aMSR(i), val, out) IN
         /\ log' = Append(log, LogEntry("wr", j, aMSR(i), val, r.ret))
         /\ openFds' = openFds + r.fds
         /\ hw' = r.hw
         /\ IF Failed(r.ret) THEN Exit(1) /\ UNCHANGED << i, j >>
            ELSE IF j + 1 < ncpu
              THEN pc' = "edit_read" /\ j' = j + 1 /\ UNCHANGED << i, exitStatus >>
              ELSE Goto(EditFrom(i + 1, minPstate, maxPstate, ncpu, j + 1))
    /\ UNCHANGED << ncpu, oMSR, val, minPstate, maxPstate, diag, idCheck, optVars >>

\* One iteration of the -c loop: rdmsr(i, 0xC0010071, &val) and a line.
Current ==
    /\ pc = "current"
    /\ \E out \in AccessOutcomes :
         LET r == rdmsr(i, CurrentMSR, val, out) IN
         /\ log' = Append(log, LogEntry("rd", i, CurrentMSR, r.val, r.ret))
         /\ openFds' = openFds + r.fds
         /\ val' = r.val
         /\ IF Failed(r.ret) THEN Exit(1) /\ UNCHANGED i
            ELSE IF i + 1 < ncpu
              THEN i' = i + 1 /\ UNCHANGED << pc, exitStatus >>
              ELSE i' = i + 1 /\ Exit(0)
    /\ UNCHANGED << ncpu, oMSR, minPstate, maxPstate, j, hw, diag, idCheck, optVars >>

Next ==
    \/ GetoptH \/ GetoptV \/ GetoptR \/ GetoptC \/ GetoptP
    \/ GetoptUnknown \/ GetoptEnd
    \/ CpuIdCheck \/ Status \/ Report \/ EditRead \/ EditWrite \/ Current

Spec == Init /\ [][Next]_vars

(* ------------------------ the codec on its own ------------------------- *)
\* The two encoders applied to chosen inputs: a word cw, and either a Vid
\* integer cx (ck = "vid") or a divisor cx in eighths (ck = "div").  The
\* program itself is not run (pc = "off").
CodecWords ==
    { {}, Bits64, 9..15, Bits64 \ (9..15), 0..8, Bits64 \ (0..8),
      {0, 8, 16, 32, 63}, {3, 4, 9, 15, 31, 47}, {1, 2, 5, 7, 10, 12, 14} }

MainOff ==
    /\ pc = "off"
    /\ verbose = FALSE /\ ncpu = 0
    /\ read = FALSE /\ current = FALSE
    /\ vidToSet = [p \in PIdx |-> {}]
    /\ divToSet = [p \in PIdx |-> 0]
    /\ oMSR = [p \in PIdx |-> {}]
    /\ val = {} /\ minPstate = 0 /\ maxPstate = 0 /\ i = 0 /\ j = 0
    /\ exitStatus = -1
    /\ hw = [c \in Cpus |-> [a \in MsrAddrs |-> {}]]
    /\ openFds = 0
    /\ log = << >>
    /\ diag = {}
    /\ idCheck = -1
    /\ firstReq = [p \in PIdx |-> NoReq]
    /\ firstNZ = [p \in PIdx |-> NoReq]
    /\ dupAny = FALSE /\ dupNZ = FALSE

CodecInit ==
    /\ MainOff
    /\ cw \in CodecWords
    /\ \/ ck = "vid" /\ cx \in 0..MaxVid
       \/ ck = "div" /\ cx \in 0..MaxDiv8
    /\ cout = {} /\ cdec = 0 /\ cdone = FALSE

\* vidToSet[i] = vid; val = (oMSR[i] & ...) | (vidToSet[i] << 9); and the
\* Vid read back from val as the reports read it.
CodecVid ==
    /\ ck = "vid" /\ ~cdone
    /\ cout' = EditVid(cw, U64FromInt(cx))
    /\ cdec' = VidOfWord(cout')
    /\ cdone' = TRUE
    /\ UNCHANGED << ck, cw, cx, mainVars >>

\* divtomsr(div, &val), and msrtodiv(val) of the result.
CodecDiv ==
    /\ ck = "div" /\ ~cdone
    /\ cout' = divtomsr(cx, cw)
    /\ cdec' = msrtodiv(cout')
    /\ cdone' = TRUE
    /\ UNCHANGED << ck, cw, cx, mainVars >>

CodecNext == CodecVid \/ CodecDiv

CodecSpec == CodecInit /\ [][CodecNext]_vars

(* ======================================================================= *)
(*                              properties                                 *)
(* ======================================================================= *)
\* The unsigned number held in bits [hi:lo] of a word.
RECURSIVE SumBits(_, _)
SumBits(S, lo) ==
    IF S = {} THEN 0
    ELSE LET b == CHOOSE x \in S : TRUE IN (2 ^ (b - lo)) + SumBits(S \ {b}, lo)
Field(w, lo, hi) == SumBits(w \cap (lo..hi), lo)

IsPstateMsr(a) == \E p \in PIdx : a = aMSR(p)
PstateOf(a) == CHOOSE p \in PIdx : a = aMSR(p)
LogIdx == 1..Len(log)
IsRd(k, c, a) == log[k].op = "rd" /\ log[k].cpu = c /\ log[k].msr = a
IsWr(k, c, a) == log[k].op = "wr" /\ log[k].cpu = c /\ log[k].msr = a
AllOk == \A k \in LogIdx : log[k].ret = 0

\* The range the status register gives: bits [2:0] and [6:4] of
\* 0xC0010061 on cpu 0 (no step of the program writes that register).
HwMin == Field(hw[0][StatusMSR], 0, 2)
HwMax == Field(hw[0][StatusMSR], 4, 6)
StatusRead == Len(log) >= 1 /\ log[1].ret = 0

(* C1: once cpuIdCheck has given a fail verdict (returned 1), no rdmsr and *)
(* no wrmsr call is ever made, and the program ends with a non-zero        *)
(* status.                                                                 *)
C1_FailVerdictFatal ==
    idCheck = 1 => (log = << >> /\ (pc = "exit" => exitStatus # 0))

(* C2: whenever rdmsr or wrmsr has returned, no descriptor it opened is    *)
(* still open.                                                             *)
C2_NoDescriptorLeft == openFds = 0

(* C3, as claimed: once a -p has named an index an earlier -p named, the   *)
(* program has ended with status 1 during option parsing, with no register *)
(* access, and for every index the pending Vid and divisor are those of    *)
(* the first -p that named it.                                             *)
C3_AnyDuplicateFatal ==
    /\ dupAny => (pc = "exit" /\ exitStatus = 1 /\ log = << >> /\ idCheck = -1)
    /\ \A p \in PIdx : firstReq[p].set =>
          /\ vidToSet[p] = U64FromInt(firstReq[p].vid)
          /\ divToSet[p] = firstReq[p].div

(* C3, amended: once a -p has named an index that an earlier -p named with *)
(* a non-zero Vid, the program has ended with status 1 during option       *)
(* parsing, with no register access, and for every index the pending Vid   *)
(* and divisor are those of the first -p that named it with a non-zero     *)
(* Vid.                                                                    *)
C3_PendingDuplicateFatal ==
    /\ dupNZ => (pc = "exit" /\ exitStatus = 1 /\ log = << >> /\ idCheck = -1)
    /\ \A p \in PIdx : firstNZ[p].set =>
          /\ vidToSet[p] = U64FromInt(firstNZ[p].vid)
          /\ divToSet[p] = firstNZ[p].div

C3_Witness ==
    /\ dupNZ /\ pc = "exit"
    /\ firstNZ[0].vid = 37 /\ firstNZ[0].div = 20
    /\ vidToSet[0] = {0, 2, 5} /\ divToSet[0] = 20

(* C4: every word handed to wrmsr has bits [15:9] equal to the low seven   *)
(* bits of the pending Vid, agrees on bits [63:16] with the word just read *)
(* from that register, and agrees with it on bits [8:0] too when no        *)
(* divisor is pending.                                                     *)
C4_OpaqueBitsPreserved ==
    \A k \in LogIdx : (log[k].op = "wr" /\ k > 1) =>
        LET w  == log[k - 1].val
            o  == log[k].val
            p  == PstateOf(log[k].msr)
        IN  /\ Field(o, 9, 15) = Field(vidToSet[p], 0, 6)
            /\ o \cap (16..63) = w \cap (16..63)
            /\ divToSet[p] = 0 => o \cap (0..8) = w \cap (0..8)

(* C5: no P-state register with an index outside the range the status     *)
(* register gives is ever read or written; once the status register has    *)
(* been read, the indices reported as not valid are exactly those with a   *)
(* pending Vid outside the range, and the report does not end the program  *)
(* (a run in which every access succeeded ends with status 0); and when    *)
(* the program ends with status 0, every pending index inside the range    *)
(* has been written on every core 0..ncpu-1.                               *)
C5_RangeRespected ==
    /\ \A k \in LogIdx : IsPstateMsr(log[k].msr) =>
          (HwMin <= PstateOf(log[k].msr) /\ PstateOf(log[k].msr) <= HwMax)
    /\ StatusRead =>
          diag = {p \in PIdx : vidToSet[p] # {} /\ (p < HwMin \/ p > HwMax)}
    /\ (pc = "exit" /\ StatusRead /\ AllOk) => exitStatus = 0
    /\ (pc = "exit" /\ exitStatus = 0) =>
          \A p \in HwMin..HwMax : vidToSet[p] # {} =>
             \A c \in 0..(ncpu - 1) :
                \E k \in LogIdx : IsWr(k, c, aMSR(p)) /\ log[k].ret = 0

C5_Witness ==
    /\ pc = "exit" /\ exitStatus = 0 /\ ncpu = 2
    /\ diag = {2}
    /\ vidToSet[0] # {} /\ vidToSet[1] # {}
    /\ \E k \in LogIdx : IsWr(k, 1, aMSR(1))

(* C6: a failed rdmsr or wrmsr call is the last register access of the run *)
(* and the program has then ended with a non-zero status; the first access *)
(* of every run is the read of the status register, so its failure comes   *)
(* before any write.                                                       *)
C6_FailFast ==
    /\ \A k \in LogIdx : log[k].ret # 0 =>
          (k = Len(log) /\ pc = "exit" /\ exitStatus # -1 /\ exitStatus # 0)
    /\ log # << >> => IsRd(1, 0, StatusMSR)

C6_Witness ==
    /\ pc = "exit" /\ Len(log) >= 5
    /\ log[Len(log)].op = "wr" /\ log[Len(log)].ret # 0
    /\ \E k \in LogIdx : log[k].op = "wr" /\ log[k].ret = 0

(* C7, as claimed: for every word and every divisor d >= 1.0 that is a     *)
(* multiple of 0.25, msrtodiv of the word divtomsr produces is d.          *)
C7_DivRoundTrip ==
    (cdone /\ ck = "div" /\ cx >= 8 /\ cx % 2 = 0) => cdec = cx

(* C7, amended: for every word and every divisor d with 1.0 <= d < 33.0    *)
(* that is a multiple of 0.25, msrtodiv of the word divtomsr produces is   *)
(* d, with DidMSD in bits [8:4] and DidLSD in bits [3:0] of that word and   *)
(* d = DidMSD + DidLSD * 0.25 + 1.                                         *)
C7_DivRoundTripBelow33 ==
    (cdone /\ ck = "div" /\ cx >= 8 /\ cx % 2 = 0 /\ cx < 8 * 33) =>
        /\ cdec = cx
        /\ (8 * Field(cout, 4, 8)) + (2 * Field(cout, 0, 3)) + 8 = cx

C7_Witness ==
    cdone /\ ck = "div" /\ cx = 94 /\ cw = Bits64 /\ cdec = 94

(* C8: while every register access has succeeded, every write is to a      *)
(* P-state register with a pending Vid and an index in the range, on a     *)
(* core below ncpu; it comes right after a read of the same register on    *)
(* the same core, and the word written is the edit of the word that read   *)
(* returned; the writes come in ascending order of (index, core).  When    *)
(* such a run ends with status 0, each pending index in the range has, on  *)
(* each core, exactly one write and exactly one read that a write to it    *)
(* follows at once.                                                        *)
C8_ReadModifyWritePerCore ==
    AllOk =>
      /\ \A k \in LogIdx : log[k].op = "wr" =>
            /\ IsPstateMsr(log[k].msr)
            /\ LET p == PstateOf(log[k].msr) IN
                 /\ vidToSet[p] # {} /\ HwMin <= p /\ p <= HwMax
                 /\ log[k].cpu \in 0..(ncpu - 1)
                 /\ k > 1 /\ IsRd(k - 1, log[k].cpu, log[k].msr)
                 /\ log[k].val = EditWord(log[k - 1].val, vidToSet[p], divToSet[p])
      /\ \A k1, k2 \in LogIdx : (log[k1].op = "wr" /\ log[k2].op = "wr" /\ k1 < k2) =>
            LET p1 == PstateOf(log[k1].msr)
                p2 == PstateOf(log[k2].msr)
            IN  p1 < p2 \/ (p1 = p2 /\ log[k1].cpu < log[k2].cpu)
      /\ (pc = "exit" /\ exitStatus = 0) =>
            \A p \in HwMin..HwMax : vidToSet[p] # {} =>
               \A c \in 0..(ncpu - 1) :
                  /\ Cardinality({k \in LogIdx : IsWr(k, c, aMSR(p))}) = 1
                  /\ Cardinality({k \in LogIdx : /\ IsRd(k, c, aMSR(p))
                                                 /\ k < Len(log)
                                                 /\ IsWr(k + 1, c, aMSR(p))}) = 1

C8_Witness ==
    /\ pc = "exit" /\ exitStatus = 0 /\ AllOk /\ ncpu = 2 /\ read
    /\ vidToSet[0] # {} /\ vidToSet[1] # {}
    /\ Cardinality({k \in LogIdx : log[k].op = "wr"}) = 4
    /\ \E k \in LogIdx : IsWr(k, 1, aMSR(0)) /\ log[k - 1].val = RegWord(1, 0)

(* C9: for every word w and every Vid id in 0..127, the word the edit loop *)
(* builds from w and id has id in bits [15:9] (it reads back as id) and    *)
(* equals w on every other bit.                                            *)
C9_VidRoundTrip ==
    (cdone /\ ck = "vid" /\ cx \in 0..127) =>
        /\ cdec = cx
        /\ Field(cout, 9, 15) = cx
        /\ cout \ (9..15) = cw \ (9..15)

C9_Witness ==
    cdone /\ ck = "vid" /\ cx = 85 /\ cw = Bits64 /\ cout # cw

(* C10: an index that -p requests have named only with Vid 0 is never      *)
(* written on any core, has no read that a write follows, and is never     *)
(* reported as not valid, whether or not a divisor came with it and        *)
(* whether or not it lies in the range.                                    *)
C10_VidZeroIsNoEdit ==
    \A p \in PIdx : (firstReq[p].set /\ ~firstNZ[p].set) =>
        /\ p \notin diag
        /\ \A k \in LogIdx : log[k].msr = aMSR(p) =>
              (log[k].op = "rd" /\ (k < Len(log) => log[k + 1].op # "wr"))

C10_Witness ==
    /\ pc = "exit" /\ exitStatus = 0 /\ ncpu = 2 /\ AllOk
    /\ firstReq[1].set /\ ~firstNZ[1].set /\ firstReq[1].div = 24
    /\ firstReq[2].set /\ ~firstNZ[2].set
    /\ HwMax = 1 /\ HwMin = 0
    /\ \E k \in LogIdx : IsWr(k, 1, aMSR(0))

====
